---- MODULE Spec2Model ----
(***************************************************************************)
(* Multi-window, tabbed terminal core: the tab collection of a window, the *)
(* window registry (WindowContextTracker), the per-tab event forwarder     *)
(* (EventProxyWrapper) with its fan-in channel, the command queue and the  *)
(* main loop of MultiWindowProcessor.                                      *)
(*                                                                         *)
(* Indices are 0-based as in the source; the tab stored at index i of a    *)
(* Vec is element i+1 of the TLA+ sequence.                                *)
(***************************************************************************)
EXTENDS Integers, Sequences, FiniteSets, TLC

\* ------------------------------------------------------------------ bounds
\* Largest number of tabs a collection is grown to.
MaxTabs == 3
\* Number of tabs (terminals, PTY threads) created during a run of the
\* whole program.
MaxUid == 2
\* Number of tabs created during a run of the tab-collection operations.
MaxTabUid == 3
\* Number of windows created during a run.
MaxWindows == 2
\* Largest number of events waiting in the fan-in channel.
MaxChannel == 3
\* size_info.width, the width of the window in physical pixels.
Width == 240
\* size_info.dpr, physical pixels per logical pixel.
Dpr == 2
\* config.window.tab_bar_height, in logical pixels.
BarHeight == 24
\* Longest tab title, in characters.
MaxTitleLen == 18
\* Most writes of one PTY thread into its terminal.
MaxContent == 2

\* --------------------------------------------------------------- constants
\* Option::None of a WindowId / of a tab.
None == 0
\* String::default(), the title of a new tab.
DefaultTitle == <<>>
\* The title the tab with identity u is given in the tab-collection
\* specification, one per tab.
TitleOf(u) == <<"x", u>>
\* The title every Title event and SetTabTitle command carries: Title("x").
X == <<"x">>
\* The only window of the tab-collection specification.
W0 == 1
\* The close icon of a tab (tab_bar.rs), in pixels.
CLOSE_ICON_PADDING == 10
CLOSE_ICON_WIDTH == 10

WindowIds == 1..MaxWindows
Uids == 1..(IF MaxUid > MaxTabUid THEN MaxUid ELSE MaxTabUid)

\* The events a PTY thread emits through its EventProxyWrapper, in order.
Script == <<"Wakeup", "Title", "Exit">>

VARIABLES
    map,                        \* WindowContextTracker.map: WindowId -> WindowContext
    active_window_id,           \* WindowContextTracker.active_window_id
    schedule_window_activation, \* the deferred activation of MultiWindowProcessor::run
    control_flow,               \* the ControlFlow of the glutin event loop
    tab_handle,                 \* uid -> the shared TermTabHandle of that tab
    channel,                    \* the mio channel of MultiWindowEvent (fan-in)
    pty,                        \* uid -> number of Script events the PTY thread has emitted
    io_thread,                  \* uid -> state of the PTY I/O thread
    loop_tx,                    \* uid -> Msg values sent on the tab's loop_tx
    next_uid,                   \* next fresh tab identity
    next_window_id,             \* next WindowId the windowing layer hands out
    panicked,                   \* the process aborted on a Rust panic
    closed,                     \* the windows closed by Processor::close_window
    dirty,                      \* uid -> the dirty flag of the tab's terminal
    current_context,            \* the window whose GL context is current on the UI thread
    tab_bar,                    \* TabBarProcessor and TabBarState of window W0
    tab_bar_out,                \* what the last TabBarProcessor::handle_event returned and pushed
    last,                       \* history: the last tab-collection operation
    fanin,                      \* history: what handle_pty_events did in the last step
    probe,                      \* the last call of a function of the tab bar: arguments and result
    phase,                      \* draw_inactive_visible_windows step by step: position, content, screens
    gpu,                        \* the GPU work of the last iteration: operation, window, context current
    user_events                 \* per tab, how many of its user events the loop has received

vars == <<map, active_window_id, schedule_window_activation, control_flow,
          tab_handle, channel, pty, io_thread, loop_tx, next_uid,
          next_window_id, panicked, closed, dirty, current_context, tab_bar,
          tab_bar_out, last, fanin, probe, phase, gpu,
          user_events>>

\* ------------------------------------------------------- sequence helpers
\* Vec::remove(i)
RemoveAt(s, i) == SubSeq(s, 1, i) \o SubSeq(s, i + 2, Len(s))

\* Vec::insert(i, x)
InsertAt(s, i, x) == SubSeq(s, 1, i) \o <<x>> \o SubSeq(s, i + 1, Len(s))

\* The uids of a sequence of tabs, in order.
UidsOf(tabs) == [i \in 1..Len(tabs) |-> tabs[i].uid]

\* The index (0-based) of the tab with identity u, or -1.
IndexOf(tabs, u) ==
    IF \E i \in 1..Len(tabs) : tabs[i].uid = u
    THEN (CHOOSE i \in 1..Len(tabs) : tabs[i].uid = u) - 1
    ELSE -1

\* ---------------------------------------------------------- TermTab
\* TermTab::new: the tab and its shared handle.
NewTab(uid, tab_id) == [uid |-> uid, tab_id |-> tab_id, title |-> DefaultTitle]

NewHandle(window_id, tab_id) == [window_id |-> window_id, tab_id |-> tab_id]

\* TermTab::set_title
set_title(tab, title) == [tab EXCEPT !.title = title]

\* ---------------------------------------------------- TermTabCollection
\* TermTabCollection::new
NewCollection == [tab_collection |-> <<>>, active_tab |-> 0]

tab_count(c) == Len(c.tab_collection)

\* An is_empty that never reports an empty collection.
is_empty_never(c) == FALSE

is_empty(c) == c.tab_collection = <<>>

\* TermTabCollection::active_tab: the uid of the active tab, or None.
active_tab(c) ==
    IF c.active_tab >= Len(c.tab_collection) THEN None
    ELSE c.tab_collection[c.active_tab + 1].uid

\* TermTabCollection::add_tab (the collection part)
add_tab(c, uid) ==
    [c EXCEPT !.tab_collection = Append(@, NewTab(uid, Len(c.tab_collection)))]

\* An activate_tab without the range check.
activate_tab_unchecked(c, tab_id) == [c EXCEPT !.active_tab = tab_id]

\* TermTabCollection::activate_tab
activate_tab(c, tab_id) ==
    IF tab_id < Len(c.tab_collection) THEN [c EXCEPT !.active_tab = tab_id] ELSE c

\* The renumbering loop of move_tab: visits tid = 0..len-1 in order, moves
\* active_tab to tid when the visited tab's old tab_id equals the current
\* active_tab, then overwrites the tab's own tab_id field.
RECURSIVE MoveLoop(_, _, _)
MoveLoop(tabs, active, tid) ==
    IF tid >= Len(tabs) THEN [tab_collection |-> tabs, active_tab |-> active]
    ELSE MoveLoop([tabs EXCEPT ![tid + 1].tab_id = tid],
                  IF tabs[tid + 1].tab_id = active THEN tid ELSE active,
                  tid + 1)

\* Vec::remove / Vec::insert panic on an index out of range.
move_tab_panics(c, tab_id, new_tab_id) ==
    \/ tab_id >= Len(c.tab_collection)
    \/ new_tab_id > Len(c.tab_collection) - 1

\* A move_tab that exchanges the tabs at the two indices.
move_tab_swap(c, tab_id, new_tab_id) ==
    MoveLoop([c.tab_collection EXCEPT ![tab_id + 1] = c.tab_collection[new_tab_id + 1],
                                      ![new_tab_id + 1] = c.tab_collection[tab_id + 1]],
             c.active_tab, 0)

\* TermTabCollection::move_tab
move_tab(c, tab_id, new_tab_id) ==
    LET tab == c.tab_collection[tab_id + 1]
        moved == InsertAt(RemoveAt(c.tab_collection, tab_id), new_tab_id, tab)
    IN  MoveLoop(moved, c.active_tab, 0)

close_tab_panics(c, tab_id) == tab_id >= Len(c.tab_collection)

\* A close_tab without the clamp of active_tab.
close_tab_no_clamp(c, tab_id) ==
    LET removed == RemoveAt(c.tab_collection, tab_id)
    IN  [tab_collection |-> [i \in 1..Len(removed) |->
                                [removed[i] EXCEPT !.tab_id = i - 1]],
         active_tab |-> c.active_tab]

\* TermTabCollection::close_tab (the collection part; update_tab_id writes
\* the tab's own tab_id field here and the handle in update_tab_id_handle)
close_tab(c, tab_id) ==
    LET removed == RemoveAt(c.tab_collection, tab_id)
        active  == IF c.active_tab >= Len(removed) /\ c.active_tab # 0
                   THEN Len(removed) - 1 ELSE c.active_tab
    IN  [tab_collection |-> [i \in 1..Len(removed) |->
                                [removed[i] EXCEPT !.tab_id = i - 1]],
         active_tab |-> active]

\* TermTab::update_tab_id, the shared handle part, for every tab of tabs.
update_tab_id_handle(h, tabs) ==
    [u \in DOMAIN h |->
        IF IndexOf(tabs, u) >= 0 THEN [h[u] EXCEPT !.tab_id = IndexOf(tabs, u)]
        ELSE h[u]]

\* TermTabCollection::close_current_tab is close_tab(active_tab).

\* ------------------------------------------------------------ initial state
NoOp == [op |-> "none", a |-> 0, b |-> 0, before |-> NewCollection]

NoFanin == [kind |-> "none", src |-> None, target |-> None,
            src_alive |-> FALSE, src_titled |-> FALSE]

\* MultiWindowEvent as built by EventProxyWrapper::send_event, with the
\* identity of the emitting tab (src) kept for the history variables.
MultiWindowEvent(h, event, src) ==
    [window_id |-> h.window_id, tab_id |-> h.tab_id, wrapped_event |-> event,
     src |-> src]

\* The first `early` Script events of tab uid, emitted while the handle still
\* holds window_id = None (TermTabCollection::initialize starts the PTY
\* thread before the display exists).
EarlyEvents(uid, early) ==
    [i \in 1..early |-> MultiWindowEvent(NewHandle(None, 0), Script[i], uid)]

\* ------------------------------------------------------------- tab bar
\* Option<usize>::None of a tab index.
NoTab == -1

\* Option of a structured value (a position, a DraggingInfo).
Nothing == <<>>
Some(v) == <<v>>
Unwrap(o) == o[1]

\* TabBarProcessor::new over TabBarState::new: no tab state computed yet.
NewTabBar ==
    [tabs_len |-> 0,
     hovered_tab |-> NoTab,
     dragging_info |-> Nothing,
     dragged_tab |-> FALSE,
     is_mouse_down |-> FALSE,
     mouse_down_position |-> Nothing,
     current_mouse_position |-> Nothing,
     mouse_down_window |-> None]

\* No function of the tab bar called yet.
NoProbe == [fn |-> "none", args |-> <<>>, out |-> 0]

\* draw_inactive_visible_windows not entered: nothing written by a PTY thread,
\* nothing on a screen, no window visited.
NoPhase == [pc |-> "idle", todo |-> {}, w |-> None, ended |-> FALSE,
            seen |-> [w \in WindowIds |-> FALSE],
            cleared |-> [w \in WindowIds |-> FALSE],
            draws |-> [w \in WindowIds |-> 0],
            wrote |-> FALSE,
            content |-> [u \in Uids |-> 0],
            screen |-> [u \in Uids |-> 0]]

\* Nothing returned yet by handle_event.
NoOutput ==
    [queue |-> <<>>, need_redraw |-> FALSE, skip_processor_run |-> FALSE,
     cursor_icon |-> "None"]

\* WindowContextTracker::initialize: one window with one tab, active; the
\* tab's thread may have emitted `early` events before set_window_id ran.
InitWith(early) ==
    /\ map = (W0 :> [tab_collection |-> <<NewTab(1, 0)>>, active_tab |-> 0])
    /\ active_window_id = W0
    /\ schedule_window_activation = None
    /\ control_flow = "Poll"
    /\ tab_handle = [u \in Uids |-> IF u = 1 THEN NewHandle(W0, 0)
                                    ELSE NewHandle(None, 0)]
    /\ channel = EarlyEvents(1, early)
    /\ pty = [u \in Uids |-> IF u = 1 THEN early ELSE 0]
    /\ io_thread = [u \in Uids |-> IF u = 1 THEN "running" ELSE "unspawned"]
    /\ loop_tx = [u \in Uids |-> <<>>]
    /\ next_uid = 2
    /\ next_window_id = W0 + 1
    /\ panicked = FALSE
    /\ closed = {}
    /\ dirty = [u \in Uids |-> FALSE]
    /\ current_context = W0
    /\ tab_bar = NewTabBar
    /\ tab_bar_out = NoOutput
    /\ last = NoOp
    /\ fanin = NoFanin
    /\ probe = NoProbe
    /\ phase = NoPhase
    /\ gpu = {}
    /\ user_events = [u \in Uids |-> 0]

\* ------------------------------------------------ tab-collection operations
\* The operations of TermTabCollection applied, one call per step, to the
\* collection of window W0.  A call that panics aborts the process.
CollVars == <<active_window_id, schedule_window_activation, control_flow,
              channel, pty, loop_tx, next_window_id, closed, dirty,
              current_context, tab_bar, tab_bar_out, fanin, probe, phase,
              gpu, user_events>>

Coll == map[W0]

Record(op, a, b) == [op |-> op, a |-> a, b |-> b, before |-> Coll]

TC_AddTab ==
    /\ ~panicked
    /\ tab_count(Coll) < MaxTabs
    /\ next_uid <= MaxTabUid
    /\ map' = [map EXCEPT ![W0] = add_tab(@, next_uid)]
    /\ tab_handle' = [tab_handle EXCEPT ![next_uid] = NewHandle(W0, tab_count(Coll))]
    /\ io_thread' = [io_thread EXCEPT ![next_uid] = "running"]
    /\ next_uid' = next_uid + 1
    /\ last' = Record("add_tab", 0, 0)
    /\ UNCHANGED <<panicked, CollVars>>

TC_ActivateTab(t) ==
    /\ ~panicked
    /\ map' = [map EXCEPT ![W0] = activate_tab(@, t)]
    /\ last' = Record("activate_tab", t, 0)
    /\ UNCHANGED <<tab_handle, io_thread, next_uid, panicked, CollVars>>

TC_SetTitle(t) ==
    /\ ~panicked
    /\ t < tab_count(Coll)
    /\ map' = [map EXCEPT ![W0].tab_collection[t + 1] = set_title(@, TitleOf(@.uid))]
    /\ last' = Record("set_title", t, 0)
    /\ UNCHANGED <<tab_handle, io_thread, next_uid, panicked, CollVars>>

TC_MoveTab(a, b) ==
    /\ ~panicked
    /\ IF move_tab_panics(Coll, a, b)
       THEN /\ panicked' = TRUE
            /\ UNCHANGED <<map, last>>
       ELSE /\ map' = [map EXCEPT ![W0] = move_tab(@, a, b)]
            /\ last' = Record("move_tab", a, b)
            /\ UNCHANGED panicked
    /\ UNCHANGED <<tab_handle, io_thread, next_uid, CollVars>>

\* close_tab(k), also reached as close_current_tab when k = active_tab.
CloseStep(op, k) ==
    /\ ~panicked
    /\ IF close_tab_panics(Coll, k)
       THEN /\ panicked' = TRUE
            /\ UNCHANGED <<map, tab_handle, last>>
       ELSE /\ map' = [map EXCEPT ![W0] = close_tab(@, k)]
            /\ tab_handle' = update_tab_id_handle(tab_handle,
                                                  close_tab(Coll, k).tab_collection)
            /\ last' = Record(op, k, 0)
            /\ UNCHANGED panicked
    /\ UNCHANGED <<io_thread, next_uid, CollVars>>

TC_CloseTab(k) == CloseStep("close_tab", k)

TC_CloseCurrentTab == CloseStep("close_current_tab", Coll.active_tab)

InitTabs == InitWith(0)

NextTabs ==
    \/ TC_AddTab
    \/ \E t \in 0..MaxTabs : TC_ActivateTab(t)
    \/ \E t \in 0..MaxTabs - 1 : TC_SetTitle(t)
    \/ \E a, b \in 0..MaxTabs : TC_MoveTab(a, b)
    \/ \E k \in 0..MaxTabs : TC_CloseTab(k)
    \/ TC_CloseCurrentTab

SpecTabs == InitTabs /\ [][NextTabs]_vars

\* ------------------------------------------------- WindowContextTracker
\* A tracker value is [map, active_window_id], with the windows its
\* close_window has closed.
Tracker(m, a, cl) == [map |-> m, active_window_id |-> a, closed |-> cl]

is_empty_tracker(tr) == DOMAIN tr.map = {}

has_active_window(tr) == tr.active_window_id # None

\* WindowContextTracker::get_context
has_context(tr, window_id) == window_id \in DOMAIN tr.map

\* WindowContextTracker::activate_window
activate_window(tr, window_id) == [tr EXCEPT !.active_window_id = window_id]

\* WindowContextTracker::deactivate_window
deactivate_window(tr, window_id) ==
    IF tr.active_window_id # None /\ tr.active_window_id = window_id
    THEN [tr EXCEPT !.active_window_id = None]
    ELSE tr

\* A close_window that forgets to remove the context from the map.
close_window_keeps_context(tr, window_id) ==
    IF window_id \notin DOMAIN tr.map THEN tr
    ELSE [tr EXCEPT !.active_window_id =
              IF tr.active_window_id # None /\ tr.active_window_id = window_id
              THEN None ELSE tr.active_window_id]

\* A close_window that drops every context of the map.
close_window_clears_map(tr, window_id) ==
    IF window_id \notin DOMAIN tr.map THEN tr
    ELSE [map |-> [w \in {} |-> NewCollection],
          active_window_id |->
              IF tr.active_window_id # None /\ tr.active_window_id = window_id
              THEN None ELSE tr.active_window_id,
          closed |-> tr.closed \cup {window_id}]

\* WindowContextTracker::close_window
close_window(tr, window_id) ==
    IF window_id \notin DOMAIN tr.map THEN tr
    ELSE [map |-> [w \in DOMAIN tr.map \ {window_id} |-> tr.map[w]],
          active_window_id |->
              IF tr.active_window_id # None /\ tr.active_window_id = window_id
              THEN None ELSE tr.active_window_id,
          closed |-> tr.closed \cup {window_id}]

\* WindowContextTracker::create_window_context (the registry part): the new
\* context holds the collection built by TermTabCollection::initialize.
create_window_context(tr, window_id, uid) ==
    [map |-> [w \in DOMAIN tr.map \cup {window_id} |->
                 IF w = window_id
                 THEN activate_tab(add_tab(NewCollection, uid), 0)
                 ELSE tr.map[w]],
     active_window_id |-> window_id,
     closed |-> tr.closed]

\* The window whose collection holds tab u, or None.
WindowOf(m, u) ==
    IF \E w \in DOMAIN m : IndexOf(m[w].tab_collection, u) >= 0
    THEN CHOOSE w \in DOMAIN m : IndexOf(m[w].tab_collection, u) >= 0
    ELSE None

\* The tab u as stored in the registry (u must be stored).
TabOf(m, u) ==
    LET tabs == m[WindowOf(m, u)].tab_collection
    IN  tabs[IndexOf(tabs, u) + 1]

\* ---------------------------------------------------------- PTY threads
\* EventProxyWrapper::send_event, called by the PTY thread of tab u for the
\* next event of its Script: reads the shared handle under its lock and
\* pushes the tagged event onto the fan-in channel.  Exit is the thread's
\* last event.
send_event(u) ==
    /\ ~panicked
    /\ control_flow # "Exit"
    /\ io_thread[u] = "running"
    /\ pty[u] < Len(Script)
    /\ Len(channel) < MaxChannel
    /\ channel' = Append(channel,
                         MultiWindowEvent(tab_handle[u], Script[pty[u] + 1], u))
    /\ pty' = [pty EXCEPT ![u] = @ + 1]
    /\ io_thread' = [io_thread EXCEPT ![u] =
                        IF Script[pty[u] + 1] = "Exit" THEN "exited" ELSE @]
    /\ fanin' = NoFanin
    /\ UNCHANGED <<map, active_window_id, schedule_window_activation,
                   control_flow, tab_handle, loop_tx, next_uid,
                   next_window_id, panicked, closed, dirty,
                   current_context, tab_bar, tab_bar_out, last, probe,
                   phase, gpu, user_events>>

\* ------------------------------------------------------------- main loop
\* The state the UI thread works on during one iteration.
UI == [tr |-> Tracker(map, active_window_id, closed),
       sched |-> schedule_window_activation,
       cf |-> control_flow,
       handle |-> tab_handle,
       channel |-> channel,
       pty |-> pty,
       io |-> io_thread,
       next_uid |-> next_uid,
       next_window_id |-> next_window_id,
       panicked |-> panicked,
       fanin |-> NoFanin,
       ret |-> FALSE,
       err |-> FALSE,
       dirty |-> dirty,
       gl |-> current_context,
       drawn |-> {},
       gpu |-> {}]

\* MultiWindowProcessor::handle_multi_window_events; ret = TRUE is the
\* `return true` that ends the iteration.
handle_multi_window_events(s, ev) ==
    LET sched_step(x) ==
            IF x.sched # None
            THEN [x EXCEPT !.tr = activate_window(x.tr, x.sched),
                           !.sched = None, !.cf = "Wait", !.ret = TRUE]
            ELSE x
    IN  CASE ev.type = "EventsCleared" ->
                IF ev.flag THEN [s EXCEPT !.cf = "Wait", !.ret = TRUE]
                ELSE sched_step([s EXCEPT !.cf = "Wait"])
          [] ev.type = "Focused" ->
                IF ev.flag
                THEN [s EXCEPT !.sched = ev.window_id, !.cf = "Poll", !.ret = TRUE]
                ELSE sched_step([s EXCEPT !.tr = deactivate_window(s.tr, ev.window_id)])
          [] ev.type = "CloseRequested" ->
                sched_step([s EXCEPT !.tr = close_window(s.tr, ev.window_id)])
          [] OTHER -> sched_step(s)

\* What handle_pty_events did with the event e (history record): the tab it
\* was applied to, whether the emitting tab was still stored in the registry
\* and whether that tab carried its own title.
Applied(s, e, target) ==
    [kind |-> e.wrapped_event, src |-> e.src, target |-> target,
     src_alive |-> WindowOf(s.tr.map, e.src) # None,
     src_titled |-> /\ WindowOf(s.tr.map, e.src) # None
                    /\ TabOf(s.tr.map, e.src).title = X]

\* The UI thread works on the display of window w (op) while the context
\* s.gl is current.
GpuOp(s, op, w) ==
    [s EXCEPT !.gpu = @ \cup {[op |-> op, window |-> w, context |-> s.gl]}]

\* MultiWindowProcessor::handle_pty_events: try_recv one event of the fan-in
\* channel and apply it to the tab at index tab_id of window window_id.
\* ret = TRUE is the `None` result that ends the iteration.
handle_pty_events(s) ==
    IF s.channel = <<>> THEN s
    ELSE
    LET e  == Head(s.channel)
        s1 == [s EXCEPT !.channel = Tail(s.channel)]
    IN  IF e.window_id = None \/ ~has_context(s.tr, e.window_id)
        THEN [s1 EXCEPT !.ret = TRUE, !.fanin = Applied(s, e, None)]
        ELSE
        LET c == s.tr.map[e.window_id]
        IN  CASE e.wrapped_event = "Exit" ->
                   IF close_tab_panics(c, e.tab_id)
                   THEN [s1 EXCEPT !.panicked = TRUE, !.fanin = Applied(s, e, None)]
                   ELSE
                   LET c2 == close_tab(c, e.tab_id)
                       tr2 == [s.tr EXCEPT !.map[e.window_id] = c2]
                       s2 == IF ~is_empty(c2) /\ active_tab(c2) # None
                             THEN GpuOp(s1, "update_size", e.window_id)
                             ELSE s1
                   IN  [s2 EXCEPT
                          !.tr = IF is_empty(c2)
                                 THEN close_window(tr2, e.window_id) ELSE tr2,
                          !.handle = update_tab_id_handle(s.handle, c2.tab_collection),
                          !.fanin = Applied(s, e, c.tab_collection[e.tab_id + 1].uid),
                          !.ret = TRUE]
              [] e.wrapped_event = "Title" ->
                   IF e.tab_id >= tab_count(c)
                   THEN [s1 EXCEPT !.panicked = TRUE, !.fanin = Applied(s, e, None)]
                   ELSE [s1 EXCEPT
                          !.tr.map[e.window_id].tab_collection[e.tab_id + 1] =
                              set_title(@, X),
                          !.fanin = Applied(s, e, c.tab_collection[e.tab_id + 1].uid)]
              [] OTHER -> [s1 EXCEPT !.fanin = Applied(s, e, None)]

\* ------------------------------------------------- MultiWindowCommand
\* a, b: the command's tab indices; for CreateWindow a is the number of
\* events the new tab's thread emits before its handle gets the window id
\* and b = 1 tells that creating the display fails.
Command(cmd, window_id, a, b) ==
    [cmd |-> cmd, window_id |-> window_id, a |-> a, b |-> b]

Min(a, b) == IF a < b THEN a ELSE b

\* update_size (command_queue.rs): unwraps the active tab.
update_size_panics(c) == active_tab(c) = None

\* CreateWindow: WindowContext::new builds the collection with its first tab
\* (whose PTY thread starts at once and may emit `early` events while the
\* handle has no window id), creates the display, writes the window id into
\* the handle; create_window_context registers and activates the context.
\* Display::new clears and swaps the new window, whose context is current.
run_create_window(s, early) ==
    [s EXCEPT
        !.tr = create_window_context(s.tr, s.next_window_id, s.next_uid),
        !.handle[s.next_uid] = NewHandle(s.next_window_id, 0),
        !.channel = @ \o EarlyEvents(s.next_uid, early),
        !.pty[s.next_uid] = early,
        !.io[s.next_uid] = IF early = Len(Script) THEN "exited" ELSE "running",
        !.next_uid = @ + 1,
        !.gl = s.next_window_id,
        !.next_window_id = @ + 1]

\* A failing CreateWindow that registers and activates the window anyway.
run_create_window_failed_registers(s) ==
    [s EXCEPT
        !.tr.map = (s.next_window_id :> NewCollection) @@ @,
        !.tr.active_window_id = s.next_window_id,
        !.handle[s.next_uid] = NewHandle(None, 0),
        !.io[s.next_uid] = "running",
        !.next_uid = @ + 1,
        !.err = TRUE]

\* CreateWindow when Display::new fails inside WindowContext::new: the
\* collection with its first tab has been built and the tab's PTY thread
\* started, the `?` drops them and leaves the registry alone; the thread
\* keeps its handle without a window id.  err is the Err that `?` returns
\* from MultiWindowCommandQueue::run.
run_create_window_failed(s) ==
    [s EXCEPT
        !.handle[s.next_uid] = NewHandle(None, 0),
        !.io[s.next_uid] = "running",
        !.next_uid = @ + 1,
        !.err = TRUE]

\* CreateTab: add_tab, activate_tab(tab_id), update_size.
run_create_tab(s, window_id) ==
    LET c  == s.tr.map[window_id]
        c2 == activate_tab(add_tab(c, s.next_uid), tab_count(c))
        s2 == IF update_size_panics(c2) THEN s
              ELSE GpuOp(s, "update_size", window_id)
    IN  [s2 EXCEPT !.tr.map[window_id] = c2,
                   !.handle[s.next_uid] = NewHandle(window_id, tab_count(c)),
                   !.io[s.next_uid] = "running",
                   !.next_uid = @ + 1,
                   !.panicked = update_size_panics(c2)]

\* The body shared by CloseTab and CloseCurrentTab: close the tab, then close
\* the window if the collection is empty, else update_size.
run_close_tab(s, window_id, tab_id) ==
    IF close_tab_panics(s.tr.map[window_id], tab_id)
    THEN [s EXCEPT !.panicked = TRUE]
    ELSE LET c2  == close_tab(s.tr.map[window_id], tab_id)
             tr2 == [s.tr EXCEPT !.map[window_id] = c2]
             s2  == IF is_empty(c2) \/ update_size_panics(c2) THEN s
                    ELSE GpuOp(s, "update_size", window_id)
         IN  [s2 EXCEPT
                !.tr = IF is_empty(c2) THEN close_window(tr2, window_id) ELSE tr2,
                !.handle = update_tab_id_handle(s.handle, c2.tab_collection),
                !.panicked = (~is_empty(c2) /\ update_size_panics(c2))]

\* One arm of the match in MultiWindowCommandQueue::run.  Every tab command
\* is skipped when get_context finds no window; tab_mut, Vec::remove and
\* Vec::insert panic on an index out of range.
run_command(s, c) ==
    LET w == c.window_id
        known == has_context(s.tr, w)
    IN  CASE c.cmd = "CreateWindow" ->
                IF c.b = 1 THEN run_create_window_failed(s)
                ELSE run_create_window(s, c.a)
          [] c.cmd = "ActivateWindow" -> [s EXCEPT !.tr = activate_window(s.tr, w)]
          [] c.cmd = "DeactivateWindow" -> [s EXCEPT !.tr = deactivate_window(s.tr, w)]
          [] c.cmd = "CloseWindow" -> [s EXCEPT !.tr = close_window(s.tr, w)]
          [] c.cmd = "SetTabTitle" ->
                IF ~known THEN s
                ELSE IF c.a >= tab_count(s.tr.map[w])
                THEN [s EXCEPT !.panicked = TRUE]
                ELSE [s EXCEPT !.tr.map[w].tab_collection[c.a + 1] =
                                   set_title(@, X)]
          [] c.cmd = "CreateTab" -> IF known THEN run_create_tab(s, w) ELSE s
          [] c.cmd = "MoveTab" ->
                IF ~known THEN s
                ELSE IF move_tab_panics(s.tr.map[w], c.a, c.b)
                THEN [s EXCEPT !.panicked = TRUE]
                ELSE [s EXCEPT !.tr.map[w] = move_tab(@, c.a, c.b)]
          [] c.cmd = "ActivateTab" ->
                IF known THEN [s EXCEPT !.tr.map[w] = activate_tab(@, c.a)] ELSE s
          [] c.cmd = "CloseCurrentTab" ->
                IF known THEN run_close_tab(s, w, s.tr.map[w].active_tab) ELSE s
          [] c.cmd = "CloseTab" ->
                IF known THEN run_close_tab(s, w, c.a) ELSE s

\* MultiWindowCommandQueue::run: the queued commands in order; a panic ends
\* the process and the Err of a failed CreateWindow ends the run, the rest
\* of the drained queue being dropped.
RECURSIVE run(_, _)
run(s, q) ==
    IF q = <<>> \/ s.panicked \/ s.err THEN s
    ELSE run(run_command(s, Head(q)), Tail(q))

\* The windows created so far (open or closed).
Created == 1..(next_window_id - 1)

\* The commands tab-bar and terminal input of the active window can queue
\* while the registry is tr: tab commands address the active window with
\* indices of its current tabs, window commands address any window.
InputCommands(s) ==
    LET w == s.tr.active_window_id
        n == tab_count(s.tr.map[w])
        T == 0..(n - 1)
    IN  (IF s.next_window_id <= MaxWindows /\ s.next_uid <= MaxUid
         THEN {Command("CreateWindow", None, early, 0) :
                  early \in 0..Min(Len(Script), MaxChannel - Len(s.channel))}
              \cup {Command("CreateWindow", None, 0, 1)}
         ELSE {})
        \cup (IF s.next_uid <= MaxUid
              THEN {Command("CreateTab", w, 0, 0)} ELSE {})
        \cup {Command(c, v, 0, 0) :
                c \in {"ActivateWindow", "DeactivateWindow", "CloseWindow"},
                v \in Created}
        \cup {Command("CloseCurrentTab", w, 0, 0)}
        \cup {Command(c, w, t, 0) :
                c \in {"ActivateTab", "CloseTab", "SetTabTitle"}, t \in T}
        \cup {Command("MoveTab", w, a, b) : a \in T, b \in T}

\* The state after lifecycle handling and fan-in of an iteration for ev.
AfterFanIn(ev) ==
    LET s1 == handle_multi_window_events(UI, ev)
    IN  IF s1.ret THEN s1 ELSE handle_pty_events(s1)

\* The iteration reaches input processing: nothing ended it, the registry is
\* not empty, there is an active window (get_active_window_context panics
\* when the active id is not in the map) with an active tab.
ReachesInput(s) ==
    /\ ~s.ret
    /\ ~s.panicked
    /\ ~is_empty_tracker(s.tr)
    /\ has_active_window(s.tr)
    /\ has_context(s.tr, s.tr.active_window_id)
    /\ active_tab(s.tr.map[s.tr.active_window_id]) # None

\* The context left by earlier iterations stays current.
make_current_skipped(s) == GpuOp(s, "make_current", s.tr.active_window_id)

\* processor.make_current() of the active window, before its run_iteration.
make_current(s) ==
    [GpuOp(s, "make_current", s.tr.active_window_id)
        EXCEPT !.gl = s.tr.active_window_id]

\* The drawing of Processor::run_iteration: a dirty terminal of the active
\* tab is drawn and its flag cleared.
run_iteration(s) ==
    [GpuOp(s, "run_iteration", s.tr.active_window_id)
        EXCEPT !.dirty[active_tab(s.tr.map[s.tr.active_window_id])] = FALSE]

\* Processor::redraw of an inactive window: drawing makes the window's
\* context current.  The windows are visited in the order of the HashMap,
\* so the context left current is that of any one of the windows drawn.
current_after(s) == IF s.drawn = {} THEN {s.gl} ELSE s.drawn

\* MultiWindowProcessor::draw_inactive_visible_windows, the last call of an
\* iteration: get_active_window_context indexes the map with the active id,
\* and the active tab of every inactive window is unwrapped; an inactive
\* window whose active tab is dirty is redrawn and the flag cleared.
draw_inactive_visible_windows(s) ==
    IF s.panicked THEN s
    ELSE IF \/ /\ has_active_window(s.tr)
               /\ ~has_context(s.tr, s.tr.active_window_id)
            \/ \E w \in DOMAIN s.tr.map :
                  /\ w # s.tr.active_window_id
                  /\ active_tab(s.tr.map[w]) = None
    THEN [s EXCEPT !.panicked = TRUE]
    ELSE
    LET D == {w \in DOMAIN s.tr.map :
                 /\ w # s.tr.active_window_id
                 /\ s.dirty[active_tab(s.tr.map[w])]}
        U == {active_tab(s.tr.map[w]) : w \in D}
    IN  [s EXCEPT !.dirty = [u \in Uids |-> IF u \in U THEN FALSE ELSE @[u]],
                  !.drawn = D]

\* The rest of the iteration from the state s2 left by lifecycle handling
\* and fan-in: the early exit on an empty registry, the inactive path, and
\* the active path, which runs the queue q filled by input processing.
AfterInput(s2, q) ==
    IF s2.ret \/ s2.panicked THEN s2
    ELSE IF is_empty_tracker(s2.tr) THEN [s2 EXCEPT !.cf = "Exit"]
    ELSE IF ~has_active_window(s2.tr) THEN draw_inactive_visible_windows(s2)
    ELSE IF ~has_context(s2.tr, s2.tr.active_window_id)
         THEN [s2 EXCEPT !.panicked = TRUE]
    ELSE IF ReachesInput(s2)
         THEN draw_inactive_visible_windows(
                  run(run_iteration(make_current(s2)), q))
    ELSE draw_inactive_visible_windows(s2)

\* The UI thread's state s3 becomes the program's state.
Commit(s3) ==
    /\ map' = s3.tr.map
    /\ active_window_id' = s3.tr.active_window_id
    /\ schedule_window_activation' = s3.sched
    /\ control_flow' = s3.cf
    /\ tab_handle' = s3.handle
    /\ channel' = s3.channel
    /\ pty' = s3.pty
    /\ io_thread' = s3.io
    /\ next_uid' = s3.next_uid
    /\ next_window_id' = s3.next_window_id
    /\ panicked' = s3.panicked
    /\ closed' = s3.tr.closed
    /\ dirty' = s3.dirty
    /\ current_context' \in current_after(s3)
    /\ fanin' = s3.fanin
    /\ gpu' = s3.gpu
    /\ UNCHANGED <<loop_tx, tab_bar, tab_bar_out, last, probe, phase>>

\* The event loop runs its closure: the process has not aborted and the
\* closure has not asked for ControlFlow::Exit.
Running == ~panicked /\ control_flow # "Exit"

\* One iteration of the closure of MultiWindowProcessor::run for an event ev
\* whose processing queues no command.
Iteration(ev) ==
    /\ \E s2 \in {AfterFanIn(ev)} :
          \E s3 \in {AfterInput(s2, <<>>)} : Commit(s3)
    /\ UNCHANGED user_events

Event(type, window_id, flag) ==
    [type |-> type, window_id |-> window_id, flag |-> flag]

Focused(w, is_focused) == Running /\ Iteration(Event("Focused", w, is_focused))

CloseRequested(w) == Running /\ Iteration(Event("CloseRequested", w, FALSE))

\* EventsCleared; event_queue_empty tells whether the buffered event_queue
\* of the run closure is empty.
EventsCleared(event_queue_empty) ==
    Running /\ Iteration(Event("EventsCleared", None, event_queue_empty))

\* Any other event (a user event, keyboard or mouse input, a redraw request)
\* whose processing queues no command.
OtherEvent == Running /\ Iteration(Event("Other", None, FALSE))

\* One iteration for an input event whose processing queues one command of
\* kind cmd (tab-bar and terminal processing push at most one per event).
Input(cmd) ==
    /\ \E s2 \in {AfterFanIn(Event("Other", None, FALSE))} :
          /\ ReachesInput(s2)
          /\ \E c \in {x \in InputCommands(s2) : x.cmd = cmd} :
                \E s3 \in {AfterInput(s2, <<c>>)} : Commit(s3)
    /\ UNCHANGED user_events

InputCreateWindow == Running /\ Input("CreateWindow")

\* The queues of two commands input processing can fill in state s:
\* CreateWindow followed by a command that creates nothing (the bound on
\* uids leaves room for one creation).
Batches(s) ==
    {<<c1, c2>> : c1 \in {x \in InputCommands(s) : x.cmd = "CreateWindow"},
                  c2 \in {x \in InputCommands(s) :
                             x.cmd \notin {"CreateWindow", "CreateTab"}}}

\* One iteration for an event whose processing queues two commands (the
\* terminal processor handles the buffered input events of a batch in one
\* call).
InputBatch ==
    /\ Running
    /\ \E s2 \in {AfterFanIn(Event("Other", None, FALSE))} :
          /\ ReachesInput(s2)
          /\ \E q \in Batches(s2) :
                \E s3 \in {AfterInput(s2, q)} : Commit(s3)
    /\ UNCHANGED user_events

InputActivateWindow == Running /\ Input("ActivateWindow")

InputDeactivateWindow == Running /\ Input("DeactivateWindow")

InputCloseWindow == Running /\ Input("CloseWindow")

InputSetTabTitle == Running /\ Input("SetTabTitle")

InputCreateTab == Running /\ Input("CreateTab")

InputMoveTab == Running /\ Input("MoveTab")

InputActivateTab == Running /\ Input("ActivateTab")

InputCloseCurrentTab == Running /\ Input("CloseCurrentTab")

InputCloseTab == Running /\ Input("CloseTab")

\* ------------------------------------------------------ the whole program
Init == \E early \in 0..Min(Len(Script), MaxChannel) : InitWith(early)

Next ==
    \/ \E u \in Uids : send_event(u)
    \/ \E w \in Created, f \in BOOLEAN : Focused(w, f)
    \/ \E w \in Created : CloseRequested(w)
    \/ \E e \in BOOLEAN : EventsCleared(e)
    \/ OtherEvent
    \/ InputCreateWindow
    \/ InputBatch
    \/ InputActivateWindow
    \/ InputDeactivateWindow
    \/ InputCloseWindow
    \/ InputSetTabTitle
    \/ InputCreateTab
    \/ InputMoveTab
    \/ InputActivateTab
    \/ InputCloseCurrentTab
    \/ InputCloseTab

Spec == Init /\ [][Next]_vars

\* ------------------------------------------------ tab bar processing
\* Logical positions of the cursor inside the window: some columns of the
\* window, and the rows at the top and at and right beyond one and a half
\* tab bar heights.
Pos(x, y) == [x |-> x, y |-> y]
Columns == {7, 20, 62, 100}
Rows == {0, (3 * BarHeight) \div 2, (3 * BarHeight) \div 2 + 1}
Positions == {Pos(x, y) : x \in Columns, y \in Rows}

\* The state handle_event works on: the processor with its tab bar state,
\* the commands pushed, the flags of the result, and a panic.
TB == [tb |-> tab_bar,
       queue |-> <<>>,
       tab_state_updated |-> FALSE,
       is_mouse_event |-> FALSE,
       is_mouse_up |-> FALSE,
       is_dragging |-> FALSE,
       cursor_icon |-> "None",
       panicked |-> FALSE]

is_detached(tb) ==
    tb.dragging_info # Nothing /\ Unwrap(tb.dragging_info).is_detached

\* TabBarState::update on RedrawRequested: one TabState per tab of the
\* collection, the dragged tab left out while it is detached.
update(tb, tab_collection) ==
    [tb EXCEPT !.tabs_len =
        tab_count(tab_collection) - (IF is_detached(tb) THEN 1 ELSE 0)]

\* A hit test that compares the logical y with the physical height.
hit_test_logical_y(n, position, dpr, width, tab_bar_height) ==
    IF n <= 1 THEN NoTab
    ELSE IF position.y < tab_bar_height * dpr
         THEN (position.x * n * dpr) \div width
    ELSE NoTab

\* A hit test that takes the logical x for a physical one.
hit_test_logical_x(n, position, dpr, width, tab_bar_height) ==
    IF n <= 1 THEN NoTab
    ELSE IF position.y * dpr < tab_bar_height * dpr
         THEN (position.x * n) \div width
    ELSE NoTab

\* The hit test of get_tab_from_mouse_position for n tabs: a
\* logical position, scaled by dpr, against the physical width of the
\* window and the physical height of the tab bar.
hit_test(n, position, dpr, width, tab_bar_height) ==
    IF n <= 1 THEN NoTab
    ELSE IF position.y * dpr < tab_bar_height * dpr
         THEN (position.x * n * dpr) \div width
    ELSE NoTab

\* TabBarProcessor::get_tab_from_mouse_position
get_tab_from_mouse_position(tb, position) ==
    hit_test(IF is_detached(tb) THEN tb.tabs_len + 1 ELSE tb.tabs_len,
             position, Dpr, Width, BarHeight)

\* TabBarProcessor::is_hover_close_button indexes the tab states with the
\* hovered tab.
is_hover_close_button_panics(tb) ==
    /\ tb.hovered_tab # NoTab
    /\ tb.current_mouse_position # Nothing
    /\ tb.hovered_tab >= tb.tabs_len

\* The test of is_hover_close_button: tab_x = (dpr * x) % tab width is
\* below CLOSE_ICON_PADDING + CLOSE_ICON_WIDTH * 2, for tabs that are
\* width / tabs_len wide.
close_button_hit(x, dpr, tabs_len, width) ==
    (dpr * x * tabs_len) % width
        < (CLOSE_ICON_PADDING + CLOSE_ICON_WIDTH * 2) * tabs_len

is_hover_close_button(tb) ==
    /\ tb.hovered_tab # NoTab
    /\ tb.current_mouse_position # Nothing
    /\ close_button_hit(Unwrap(tb.current_mouse_position).x, Dpr,
                        tb.tabs_len, Width)

\* TabBarState::clear_dragging_info
clear_dragging_info(tb) ==
    [tb EXCEPT !.dragging_info = Nothing, !.dragged_tab = FALSE]

\* An update_dragging_info that detaches the tab at 1.5 heights already.
update_dragging_info_at_threshold(tb, tab_id, deltax, deltay) ==
    LET len0 == IF tb.dragging_info # Nothing
                THEN Unwrap(tb.dragging_info).len0 ELSE tb.tabs_len
        detached == 2 * deltay >= 3 * (Dpr * BarHeight)
        ghost == tab_id + ((Width + 2 * deltax * len0) \div (2 * Width))
    IN  [tb EXCEPT
            !.dragged_tab = TRUE,
            !.dragging_info =
                Some([tab_id |-> tab_id,
                      ghost_tab_index |-> IF detached THEN NoTab
                                          ELSE IF ghost < 0 THEN 0 ELSE ghost,
                      is_detached |-> detached,
                      len0 |-> len0])]

\* TabBarState::update_dragging_info; len0 stands for initial_tab_state
\* (its width is Width / len0), kept from the start of the drag.
update_dragging_info(tb, tab_id, deltax, deltay) ==
    LET len0 == IF tb.dragging_info # Nothing
                THEN Unwrap(tb.dragging_info).len0 ELSE tb.tabs_len
        detached == 2 * deltay > 3 * (Dpr * BarHeight)
        ghost == tab_id + ((Width + 2 * deltax * len0) \div (2 * Width))
    IN  [tb EXCEPT
            !.dragged_tab = TRUE,
            !.dragging_info =
                Some([tab_id |-> tab_id,
                      ghost_tab_index |-> IF detached THEN NoTab
                                          ELSE IF ghost < 0 THEN 0 ELSE ghost,
                      is_detached |-> detached,
                      len0 |-> len0])]

\* TabBarProcessor::handle_tab_drag; the position moved to is not yet
\* stored, the delta is taken from the position before this event.
handle_tab_drag(r) ==
    LET mouse_down_position == Unwrap(r.tb.mouse_down_position)
        tab_id == get_tab_from_mouse_position(r.tb, mouse_down_position)
    IN  IF tab_id # NoTab
        THEN IF r.tb.current_mouse_position = Nothing
             THEN [r EXCEPT !.panicked = TRUE]
             ELSE [r EXCEPT
                     !.tb = update_dragging_info(r.tb, tab_id,
                               (Unwrap(r.tb.current_mouse_position).x
                                   - mouse_down_position.x) * Dpr,
                               (Unwrap(r.tb.current_mouse_position).y
                                   - mouse_down_position.y) * Dpr),
                     !.is_dragging = TRUE]
        ELSE [r EXCEPT !.tb = clear_dragging_info(r.tb),
                       !.is_dragging = r.tb.dragging_info # Nothing]

\* TabBarProcessor::handle_hover
handle_hover(r) ==
    IF r.panicked THEN r
    ELSE
    LET hovered_tab ==
            IF r.tb.current_mouse_position # Nothing
            THEN get_tab_from_mouse_position(
                     r.tb, Unwrap(r.tb.current_mouse_position))
            ELSE NoTab
        tb1 == [r.tb EXCEPT !.hovered_tab = hovered_tab]
    IN  IF is_hover_close_button_panics(tb1)
        THEN [r EXCEPT !.panicked = TRUE]
        ELSE [r EXCEPT
                !.tb = tb1,
                !.tab_state_updated = r.tb.hovered_tab # hovered_tab,
                !.cursor_icon = IF is_hover_close_button(tb1) THEN "Hand"
                                ELSE "Default"]

\* TabBarProcessor::handle_mouse_down
handle_mouse_down(r, window_id) ==
    IF r.tb.current_mouse_position = Nothing
    THEN [r EXCEPT !.panicked = TRUE]
    ELSE
    LET pressed_tab == get_tab_from_mouse_position(
                           r.tb, Unwrap(r.tb.current_mouse_position))
    IN  IF pressed_tab = NoTab THEN r
        ELSE IF is_hover_close_button_panics(r.tb)
        THEN [r EXCEPT !.panicked = TRUE]
        ELSE IF is_hover_close_button(r.tb)
        THEN [r EXCEPT !.queue =
                 Append(@, Command("CloseTab", window_id, pressed_tab, 0))]
        ELSE [r EXCEPT !.queue =
                 Append(@, Command("ActivateTab", window_id, pressed_tab, 0))]

\* TabBarProcessor::handle_mouse_up
handle_mouse_up(r) == [r EXCEPT !.tb = clear_dragging_info(r.tb)]

\* handle_event, arm CursorMoved
cursor_moved(r, position) ==
    LET r1 == IF r.tb.is_mouse_down /\ r.tb.mouse_down_position = Nothing
              THEN [r EXCEPT !.tb.mouse_down_position = Some(position)]
              ELSE r
        r2 == IF r1.tb.is_mouse_down THEN handle_tab_drag(r1) ELSE r1
        r3 == [r2 EXCEPT !.tab_state_updated = r2.is_dragging,
                         !.tb.current_mouse_position = Some(position)]
        r4 == IF ~r3.is_dragging THEN handle_hover(r3) ELSE r3
    IN  IF r2.panicked THEN r2 ELSE [r4 EXCEPT !.is_mouse_event = TRUE]

\* handle_event, arm MouseInput: the new value of is_mouse_down is assigned
\* when the block ends, so both tests read the value before the event.
mouse_input(r, window_id, state, button) ==
    LET new_mouse_down == state = "Pressed" /\ button = "Left"
        r1 == IF new_mouse_down /\ ~r.tb.is_mouse_down
              THEN handle_mouse_down(
                       [r EXCEPT !.tb.mouse_down_position = Nothing,
                                 !.tb.mouse_down_window = window_id],
                       window_id)
              ELSE r
        r2 == IF r.tb.is_mouse_down /\ state = "Released"
              THEN [handle_mouse_up(r1) EXCEPT !.is_mouse_up = TRUE]
              ELSE r1
        r3 == [r2 EXCEPT !.tb.is_mouse_down = new_mouse_down]
    IN  IF r1.panicked THEN r1
        ELSE [handle_hover(r3) EXCEPT !.is_mouse_event = TRUE]

\* The end of handle_event: the result and the processor's state are
\* stored; a panic aborts the process.
Return(r) ==
    /\ panicked' = r.panicked
    /\ tab_bar' = IF r.panicked THEN tab_bar ELSE r.tb
    /\ tab_bar_out' =
          IF r.panicked THEN NoOutput
          ELSE [queue |-> r.queue,
                need_redraw |-> r.tab_state_updated \/ r.is_dragging
                                    \/ r.is_mouse_up,
                skip_processor_run |->
                    /\ r.is_mouse_event
                    /\ r.tb.current_mouse_position # Nothing
                    /\ r.tb.tabs_len > 1
                    /\ Unwrap(r.tb.current_mouse_position).y < BarHeight,
                cursor_icon |-> r.cursor_icon]
    /\ UNCHANGED <<map, active_window_id, schedule_window_activation,
                   control_flow, tab_handle, channel, pty, io_thread, loop_tx,
                   next_uid, next_window_id, closed, dirty, current_context,
                   last, fanin, probe, phase,
                   gpu, user_events>>

RedrawRequested ==
    /\ ~panicked
    /\ Return([TB EXCEPT !.tb = update(tab_bar, map[W0])])

CursorMoved(position) ==
    /\ ~panicked
    /\ Return(cursor_moved(TB, position))

MouseInput(state, button) ==
    /\ ~panicked
    /\ Return(mouse_input(TB, W0, state, button))

\* handle_event for MouseWheel, which no arm of the match names.
MouseWheel ==
    /\ ~panicked
    /\ Return(TB)

\* A CloseCurrentTab command run between two events of the tab bar.
TabClosed == tab_count(Coll) > 1 /\ TC_CloseCurrentTab

\* The program's initial window; tabs are created and closed by commands
\* between the events of the tab bar.
InitTabBar == InitWith(0)

NextTabBar ==
    \/ RedrawRequested
    \/ \E position \in Positions : CursorMoved(position)
    \/ \E state \in {"Pressed", "Released"}, button \in {"Left", "Right"} :
          MouseInput(state, button)
    \/ MouseWheel
    \/ TC_AddTab
    \/ TabClosed

SpecTabBar == InitTabBar /\ [][NextTabBar]_vars

\* ------------------------------------------------- multiplexed drawing
\* Two windows, the second created by a CreateWindow command; their PTY
\* threads dirty the terminals while the main loop receives lifecycle and
\* other events.
InitDraw ==
    /\ map = [w \in {W0, W0 + 1} |->
                 [tab_collection |-> <<NewTab(w, 0)>>, active_tab |-> 0]]
    /\ active_window_id = W0 + 1
    /\ schedule_window_activation = None
    /\ control_flow = "Poll"
    /\ tab_handle = [u \in Uids |-> IF u <= 2 THEN NewHandle(u, 0)
                                    ELSE NewHandle(None, 0)]
    /\ channel = <<>>
    /\ pty = [u \in Uids |-> 0]
    /\ io_thread = [u \in Uids |-> IF u <= 2 THEN "running" ELSE "unspawned"]
    /\ loop_tx = [u \in Uids |-> <<>>]
    /\ next_uid = 3
    /\ next_window_id = W0 + 2
    /\ panicked = FALSE
    /\ closed = {}
    /\ dirty = [u \in Uids |-> FALSE]
    /\ current_context = W0 + 1
    /\ tab_bar = NewTabBar
    /\ tab_bar_out = NoOutput
    /\ last = NoOp
    /\ fanin = NoFanin
    /\ probe = NoProbe
    /\ phase = NoPhase
    /\ gpu = {}
    /\ user_events = [u \in Uids |-> 0]

\* The PTY thread of tab u reads output and sets the terminal's dirty flag.
PtyDirty(u) ==
    /\ Running
    /\ io_thread[u] = "running"
    /\ ~dirty[u]
    /\ dirty' = [dirty EXCEPT ![u] = TRUE]
    /\ UNCHANGED <<map, active_window_id, schedule_window_activation,
                   control_flow, tab_handle, channel, pty, io_thread, loop_tx,
                   next_uid, next_window_id, panicked, closed,
                   current_context, tab_bar, tab_bar_out, last, fanin, probe,
                   phase, gpu, user_events>>

NextDraw ==
    \/ OtherEvent
    \/ \E u \in Uids : PtyDirty(u)
    \/ \E w \in Created, f \in BOOLEAN : Focused(w, f)
    \/ \E w \in Created : CloseRequested(w)
    \/ \E e \in BOOLEAN : EventsCleared(e)

SpecDraw == InitDraw /\ [][NextDraw]_vars

\* An iteration for an event that is no lifecycle event, received while no
\* activation is pending: it gets past handle_multi_window_events to the
\* fan-in and the registry check.
Drain == OtherEvent /\ schedule_window_activation = None

\* The event loop keeps receiving events that are no lifecycle events
\* (every push of a forwarder also wakes the loop with a user event, and so
\* does user input), also at moments when no activation is pending.
FairSpec == Spec /\ WF_vars(OtherEvent) /\ SF_vars(Drain)

\* ============================================= properties of SpecTabs
Tabs == Coll.tab_collection

Before == last.before.tab_collection

\* C1: every tab stored at index i has tab_id = i, in its own field and in
\* the shared handle its event forwarder reads, and the handle's window_id
\* is the owning window.
C1_TabIdIsIndexEverywhere ==
    \A i \in 1..Len(Tabs) :
        /\ Tabs[i].tab_id = i - 1
        /\ tab_handle[Tabs[i].uid].tab_id = i - 1
        /\ tab_handle[Tabs[i].uid].window_id = W0

\* C7: after close_tab(k), k in range, on N tabs: N-1 tabs remain; the tab
\* at j < k is the same tab as before; the tab at j >= k is the one that was
\* at j+1; every remaining tab has tab_id = its index (own field and handle);
\* and active_tab < N-1 or the collection is empty.
C7_CloseTabShiftsAndRenumbers ==
    last.op \in {"close_tab", "close_current_tab"} =>
        LET N == Len(Before)
            k == last.a
        IN  /\ Len(Tabs) = N - 1
            /\ \A j \in 0..N - 2 :
                  /\ j < k => /\ Tabs[j + 1].uid = Before[j + 1].uid
                              /\ Tabs[j + 1].title = Before[j + 1].title
                  /\ j >= k => /\ Tabs[j + 1].uid = Before[j + 2].uid
                               /\ Tabs[j + 1].title = Before[j + 2].title
                  /\ Tabs[j + 1].tab_id = j
                  /\ tab_handle[Tabs[j + 1].uid].tab_id = j
            /\ (Coll.active_tab < N - 1 \/ Tabs = <<>>)

\* C7 witness: the middle tab of three was closed, the last tab was active.
C7_Witness ==
    /\ last.op = "close_tab"
    /\ last.a = 1
    /\ Len(Before) = 3
    /\ last.before.active_tab = 2
    /\ Len(Tabs) = 2

\* C8: closing a tab whose index is lower than active_tab keeps the same tab
\* active, so active_tab decreases by one (S2: three tabs, tab 1 active,
\* close_tab(0) leaves active_tab = 0).
C8_CloseBelowActiveKeepsActiveTab ==
    (last.op = "close_tab" /\ last.a < last.before.active_tab) =>
        /\ Coll.active_tab = last.before.active_tab - 1
        /\ active_tab(Coll) = active_tab(last.before)

\* C9: after move_tab(a, b), a and b in range: the tab that was at a is at b,
\* the other tabs keep their relative order, and every tab keeps its own
\* title and terminal.
C9_MoveTabReorders ==
    last.op = "move_tab" =>
        /\ Len(Tabs) = Len(Before)
        /\ Tabs[last.b + 1].uid = Before[last.a + 1].uid
        /\ RemoveAt(UidsOf(Tabs), last.b) = RemoveAt(UidsOf(Before), last.a)
        /\ \A i \in 1..Len(Tabs) :
              Tabs[i].title = Before[IndexOf(Before, Tabs[i].uid) + 1].title

\* C9 witness: with three titled tabs the first tab was moved to the end.
C9_Witness ==
    /\ last.op = "move_tab"
    /\ last.a = 0
    /\ last.b = 2
    /\ Len(Tabs) = 3
    /\ \A i \in 1..3 : Tabs[i].title = TitleOf(Tabs[i].uid)

\* C10: if active_tab = a before move_tab(a, b) then active_tab = b after it,
\* for moves to the right and to the left.
C10_ActiveFollowsMovedTab ==
    (last.op = "move_tab" /\ last.before.active_tab = last.a) =>
        Coll.active_tab = last.b

\* C6: after close_tab or close_current_tab the closed tab's PTY I/O thread
\* has been sent Shutdown on loop_tx and has been joined.
ClosedUid == Before[last.a + 1].uid

C6_ClosedTabThreadJoined ==
    last.op \in {"close_tab", "close_current_tab"} =>
        /\ \E i \in 1..Len(loop_tx[ClosedUid]) : loop_tx[ClosedUid][i] = "Shutdown"
        /\ io_thread[ClosedUid] = "joined"

\* C11: activate_tab, move_tab, close_tab with an index out of range and
\* close_current_tab on an empty collection are no-ops: the call does not
\* fail (the process does not abort) and the collection is unchanged.
C11_OutOfRangeIsNoOp ==
    /\ ~panicked
    /\ (last.op = "activate_tab" /\ last.a >= Len(Before)) => Coll = last.before

\* C12: a non-empty collection has active_tab < number of tabs.
C12_ActiveTabInRange ==
    ~is_empty(Coll) => Coll.active_tab < tab_count(Coll)

\* C12 witness: the last of three tabs was active and was closed, so the
\* clamp of close_tab acted.
C12_Witness ==
    /\ last.op \in {"close_tab", "close_current_tab"}
    /\ last.a = 2
    /\ last.before.active_tab = 2
    /\ Len(Before) = 3
    /\ Coll.active_tab = 1

\* ================================================ properties of Spec
\* C2: the registry's active window id, when set, is a key of the window map.
C2_ActiveWindowIsRegistered ==
    active_window_id # None => active_window_id \in DOMAIN map

\* C3: a Title or Exit event taken from the fan-in channel is never applied
\* to a tab other than the tab that emitted it.
C3_EventAppliedToItsEmitter ==
    (fanin.kind \in {"Title", "Exit"} /\ fanin.target # None) =>
        fanin.target = fanin.src

\* C4: when the UI thread handles the Exit of a tab that is still open, it
\* closes that tab, the tab's title has been set by its Title event before,
\* and no second Exit of the tab is waiting in the channel.
C4_TitleBeforeExitAndExitOnce ==
    (fanin.kind = "Exit" /\ fanin.src_alive) =>
        /\ fanin.target = fanin.src
        /\ fanin.src_titled
        /\ \A i \in 1..Len(channel) :
              ~(channel[i].src = fanin.src /\ channel[i].wrapped_event = "Exit")

\* C5: no forwarded event is left in the channel forever: when the main loop
\* has stopped (ControlFlow::Exit, or the process aborted) the channel is
\* empty.
C5_NoEventLeftInChannel ==
    (panicked \/ control_flow = "Exit") => channel = <<>>

\* The step dequeues the Exit of the only tab of the only window.
OnlyTabExits ==
    /\ \E w \in DOMAIN map :
          /\ DOMAIN map = {w}
          /\ tab_count(map[w]) = 1
          /\ channel # <<>>
          /\ Head(channel).wrapped_event = "Exit"
          /\ Head(channel).window_id = w
          /\ Head(channel).tab_id = 0
    /\ fanin'.kind = "Exit"

C14_NoWindowWithoutTabs ==
    \A w \in DOMAIN map : tab_count(map[w]) > 0

\* C14 witness: with two windows open, the Exit of the only tab of one of
\* them was applied; that tab is stored nowhere and the other window remains.
C14_Witness ==
    /\ fanin.kind = "Exit"
    /\ fanin.target # None
    /\ fanin.target = fanin.src
    /\ WindowOf(map, fanin.target) = None
    /\ tab_handle[fanin.target].tab_id = 0
    /\ tab_handle[fanin.target].window_id \in Created \ DOMAIN map
    /\ DOMAIN map # {}

\* C15: the registry is empty if and only if every window context ever
\* created has been closed.
C15_EmptyIffAllClosed ==
    (DOMAIN map = {}) <=> (Created \subseteq closed)

\* C15 witness: two windows were created, both have been closed and the
\* registry is empty.
C15_Witness ==
    /\ Created = {W0, W0 + 1}
    /\ closed = Created
    /\ DOMAIN map = {}

\* C16: the commands pushed during an iteration are all applied, in the
\* order they were pushed, by the run at the end of that iteration: running
\* a queue <<c1, c2>> after lifecycle handling and fan-in leaves what
\* applying c1 and then c2 leaves (unless a command aborts the process).
C16_CommandsAllAppliedInOrder ==
    Running =>
        \A s2 \in {AfterFanIn(Event("Other", None, FALSE))} :
            ReachesInput(s2) =>
                \A q \in Batches(s2) :
                    \/ run(s2, q).panicked
                    \/ run_command(run_command(s2, q[1]), q[2]).panicked
                    \/ run(s2, q) = run_command(run_command(s2, q[1]), q[2])

\* The events the iteration after a Focused(true) can receive, other than a
\* further Focused(true).
FollowingEvents ==
    {Event("EventsCleared", None, e) : e \in BOOLEAN}
        \cup {Event("Other", None, FALSE)}
        \cup {Event("CloseRequested", w, FALSE) : w \in Created}
        \cup {Event("Focused", w, FALSE) : w \in Created}

\* C17: an iteration that receives Focused(true) for window w leaves the
\* active window as it was and stores w as the scheduled activation; the
\* next iteration, whatever event it receives, makes the stored window the
\* active window.
C17_ActivationAppliedNextIteration ==
    /\ [][\A w \in Created :
            Focused(w, TRUE) =>
                /\ active_window_id' = active_window_id
                /\ schedule_window_activation' = w]_vars
    /\ [][\A ev \in FollowingEvents :
            (schedule_window_activation # None /\ Running /\ Iteration(ev))
                => active_window_id' = schedule_window_activation]_vars

\* properties of SpecDraw
\* An inactive window was drawn in this step: the dirty flag of its active
\* tab has been cleared.
DrawnInactive ==
    \E w \in DOMAIN map \cap DOMAIN map' :
        /\ w # active_window_id'
        /\ active_tab(map'[w]) # None
        /\ dirty[active_tab(map'[w])]
        /\ ~dirty'[active_tab(map'[w])]

\* C18: at the end of an iteration in which an inactive window was drawn
\* while an active window exists, the context current on the UI thread is
\* the active window's.
C18_ActiveContextCurrentAfterInactiveDraw ==
    [][(DrawnInactive /\ active_window_id' # None)
          => current_context' = active_window_id']_vars

\* properties of SpecTabBar
\* The left button is released while a drag that is not detached has moved
\* the ghost tab away from the dragged tab's index.
ReleaseAfterDrag ==
    /\ tab_bar.is_mouse_down
    /\ tab_bar.dragging_info # Nothing
    /\ ~Unwrap(tab_bar.dragging_info).is_detached
    /\ Unwrap(tab_bar.dragging_info).ghost_tab_index
           # Unwrap(tab_bar.dragging_info).tab_id
    /\ MouseInput("Released", "Left")

\* C19: releasing the left button after a drag that is not detached and
\* whose ghost index differs from the dragged tab's index enqueues
\* MoveTab(window, original index, ghost index).
C19_ReleaseEnqueuesMoveTab ==
    [][ReleaseAfterDrag =>
          tab_bar_out'.queue =
              <<Command("MoveTab", W0,
                        Unwrap(tab_bar.dragging_info).tab_id,
                        Unwrap(tab_bar.dragging_info).ghost_tab_index)>>]_vars

\* C20: after a left-button release has been handled there is no dragging
\* info and no ghost tab, whatever events came before.
C20_ReleaseClearsDrag ==
    [][(MouseInput("Released", "Left") /\ ~panicked') =>
          /\ tab_bar'.dragging_info = Nothing
          /\ ~tab_bar'.dragged_tab]_vars

\* A left press, the button not being held, with the cursor last reported
\* at position p of a window that has more than one tab.
LeftPressAt(p) ==
    /\ tab_bar.current_mouse_position = Some(p)
    /\ ~tab_bar.is_mouse_down
    /\ tab_count(Coll) > 1
    /\ MouseInput("Pressed", "Left")

\* The one command a press at p of the tab strip is to enqueue: CloseTab of
\* the tab under the cursor inside its close hotspot, ActivateTab otherwise.
PressCommand(p) ==
    Command(IF close_button_hit(p.x, Dpr, tab_count(Coll), Width)
            THEN "CloseTab" ELSE "ActivateTab",
            W0, hit_test(tab_count(Coll), p, Dpr, Width, BarHeight), 0)

\* C21: a left press with the cursor in the tab strip of a window with more
\* than one tab enqueues exactly one command, addressed to the tab under
\* the cursor: CloseTab inside that tab's close hotspot, ActivateTab
\* otherwise; a press outside the strip enqueues none.
C21_PressEnqueuesOneCommand ==
    [][\A p \in Positions :
          LeftPressAt(p) =>
              /\ ~panicked'
              /\ tab_bar_out'.queue =
                     IF p.y * Dpr < BarHeight * Dpr THEN <<PressCommand(p)>>
                     ELSE <<>>]_vars

\* handle_event given a mouse event: a cursor move, a button press or
\* release, or a wheel scroll.
MouseEvent ==
    \/ \E position \in Positions : CursorMoved(position)
    \/ \E state \in {"Pressed", "Released"}, button \in {"Left", "Right"} :
          MouseInput(state, button)
    \/ MouseWheel

\* The cursor is in the tab strip of a window that has more than one tab.
InTabStrip(tb) ==
    /\ tab_count(Coll) > 1
    /\ tb.current_mouse_position # Nothing
    /\ Unwrap(tb.current_mouse_position).y * Dpr < BarHeight * Dpr

\* C22: every mouse event handled while the cursor is in the tab strip of a
\* window with more than one tab returns skip_processor_run = true, so
\* that the terminal processor is not run for it.
C22_MouseEventInStripSkips ==
    [][(MouseEvent /\ InTabStrip(tab_bar')) =>
          /\ ~panicked'
          /\ tab_bar_out'.skip_processor_run]_vars

\* handle_event given any event of the window.
TabBarEvent == RedrawRequested \/ MouseEvent

\* C23: while the window has at most one tab the processor passes every
\* event through: it enqueues no command, starts no drag, reports no
\* hovered tab and does not ask to skip the terminal processor.
C23_SingleTabPassesThrough ==
    [][(TabBarEvent /\ tab_count(Coll) <= 1 /\ ~panicked') =>
          /\ tab_bar_out'.queue = <<>>
          /\ tab_bar.dragging_info = Nothing
                 => tab_bar'.dragging_info = Nothing
          /\ tab_bar'.hovered_tab = NoTab
          /\ ~tab_bar_out'.skip_processor_run]_vars

\* ------------------------------------------- the functions of the tab bar
\* The pure computations of the tab bar, each applied once to arguments
\* drawn from bounded sets; probe records the call and its result.
CalcVars == <<map, active_window_id, schedule_window_activation,
              control_flow, tab_handle, channel, pty, io_thread, loop_tx,
              next_uid, next_window_id, panicked, closed, dirty,
              current_context, tab_bar, tab_bar_out, last, fanin, phase,
              gpu, user_events>>

\* Window widths in physical pixels, device pixel ratios, tab bar heights
\* and logical cursor coordinates the functions are applied to.
Widths == {Width, 800, 1600}
Dprs == 1..Dpr
Heights == {BarHeight, 24}
Xs == {0, 4, 5, 12, 14, 15, 119, 120, 399, 400, 401, 799}
Ys == {0, 10, 11, 12, 23, 24, 47, 48, 60}

HitTest ==
    \E n \in 1..MaxTabs, x \in Xs, y \in Ys, dpr \in Dprs, width \in Widths,
       tab_bar_height \in Heights :
        /\ probe = NoProbe
        /\ probe' = [fn |-> "hit_test",
                     args |-> [n |-> n, x |-> x, y |-> y, dpr |-> dpr,
                               width |-> width,
                               tab_bar_height |-> tab_bar_height],
                     out |-> hit_test(n, Pos(x, y), dpr, width,
                                      tab_bar_height)]
        /\ UNCHANGED CalcVars

\* is_hover_close_button with a hovered tab, for tabs_len tabs.
CloseButtonHit ==
    \E tabs_len \in 1..MaxTabs, x \in Xs, dpr \in Dprs, width \in Widths :
        /\ probe = NoProbe
        /\ probe' = [fn |-> "close_button_hit",
                     args |-> [tabs_len |-> tabs_len, x |-> x, dpr |-> dpr,
                               width |-> width],
                     out |-> close_button_hit(x, dpr, tabs_len, width)]
        /\ UNCHANGED CalcVars

\* Titles of up to MaxTitleLen characters, cell widths of the font and
\* widths of a tab (the window shared by 1..MaxTabs tabs).
Titles == {[i \in 1..n |-> "a"] : n \in 0..MaxTitleLen}
CellWidths == {7, 10}
TabWidths == {Width \div n : n \in 1..MaxTabs}

\* The width the title is laid out in: the tab without the room kept free
\* on both sides, 4 * (CLOSE_ICON_WIDTH + CLOSE_ICON_PADDING) * dpr.
title_padding(dpr) == 4 * (CLOSE_ICON_WIDTH + CLOSE_ICON_PADDING) * dpr

\* TabBarRenderer::ellipsis_tab_title; cut_point is a usize, and a slice
\* beyond the title panics.
ellipsis_tab_title(title, cell_width, dpr, drag_aware_width) ==
    LET text_width == Len(title) * cell_width
        truncated_text_width == 3 * cell_width + text_width
                                    + title_padding(dpr)
        delta == truncated_text_width - drag_aware_width
    IN  IF delta > 0
        THEN IF delta \div cell_width > Len(title)
             THEN [panic |-> TRUE, title |-> <<>>]
             ELSE [panic |-> FALSE,
                   title |-> SubSeq(title, 1,
                                    Len(title) - delta \div cell_width)
                                 \o <<".", ".", ".">>]
        ELSE [panic |-> FALSE, title |-> title]

EllipsisTabTitle ==
    \E title \in Titles, cell_width \in CellWidths, dpr \in Dprs,
       drag_aware_width \in TabWidths :
        /\ probe = NoProbe
        /\ probe' = [fn |-> "ellipsis_tab_title",
                     args |-> [title |-> title, cell_width |-> cell_width,
                               dpr |-> dpr,
                               drag_aware_width |-> drag_aware_width],
                     out |-> ellipsis_tab_title(title, cell_width, dpr,
                                                drag_aware_width)]
        /\ UNCHANGED CalcVars

InitCalc == InitWith(0)

NextCalc == HitTest \/ CloseButtonHit \/ EllipsisTabTitle

SpecCalc == InitCalc /\ [][NextCalc]_vars

\* C24 as stated: for N > 1 and any (x, y) with y < H = tab_bar_height * dpr
\* and 0 <= x < window_width the hit test returns
\* floor(x * N * dpr / window_width), a tab of [0, N); it returns no tab
\* when y >= H.
C24_HitTestAsStated ==
    LET a == probe.args
        H == a.tab_bar_height * a.dpr
    IN  (probe.fn = "hit_test" /\ a.n > 1) =>
            /\ (a.y < H /\ a.x < a.width) =>
                   /\ probe.out = (a.x * a.n * a.dpr) \div a.width
                   /\ probe.out \in 0..a.n - 1
            /\ a.y >= H => probe.out = NoTab

\* C24, amended: for N > 1 and any logical (x, y) with y * dpr < H and
\* 0 <= x * dpr < window_width the hit test returns
\* floor(x * N * dpr / window_width), a tab of [0, N); it returns no tab
\* when y * dpr >= H.
C24_HitTestInRange ==
    LET a == probe.args
        H == a.tab_bar_height * a.dpr
    IN  (probe.fn = "hit_test" /\ a.n > 1) =>
            /\ (a.y * a.dpr < H /\ a.x * a.dpr < a.width) =>
                   /\ probe.out = (a.x * a.n * a.dpr) \div a.width
                   /\ probe.out \in 0..a.n - 1
            /\ a.y * a.dpr >= H => probe.out = NoTab

\* C24 witness: on a display with dpr 2 the hit test found the last of
\* three tabs.
C24_Witness ==
    /\ probe.fn = "hit_test"
    /\ probe.args.dpr = 2
    /\ probe.args.n = 3
    /\ probe.args.x * 2 < probe.args.width
    /\ probe.args.y * 2 < probe.args.tab_bar_height * 2
    /\ probe.out = 2

DragStep(p) ==
    /\ tab_bar.is_mouse_down
    /\ CursorMoved(p)
    /\ ~panicked'
    /\ tab_bar'.dragging_info # Nothing

\* C26: the dragged tab is detached exactly when dy > 1.5 * H, dy being the
\* vertical distance of the processor's cursor position from its mouse-down
\* position scaled by dpr and H = tab_bar_height * dpr; while it is
\* detached there is no ghost index.
C26_DetachedBeyondOneAndAHalfHeights ==
    [][\A p \in Positions :
          DragStep(p) =>
              LET dy == (Unwrap(tab_bar.current_mouse_position).y
                           - Unwrap(tab_bar'.mouse_down_position).y) * Dpr
                  H == BarHeight * Dpr
                  info == Unwrap(tab_bar'.dragging_info)
              IN  /\ info.is_detached <=> 2 * dy > 3 * H
                  /\ info.is_detached => info.ghost_tab_index = NoTab]_vars

\* C26 witness: a drag that started at the top of the tab bar is detached.
C26_Witness ==
    /\ tab_bar.is_mouse_down
    /\ tab_bar.dragging_info # Nothing
    /\ Unwrap(tab_bar.dragging_info).is_detached
    /\ Unwrap(tab_bar.dragging_info).ghost_tab_index = NoTab
    /\ tab_bar.mouse_down_position # Nothing
    /\ Unwrap(tab_bar.mouse_down_position).y = 0

\* The CreateWindow command whose window cannot be created.
FailingCreateWindow == Command("CreateWindow", None, 0, 1)

\* The step of an iteration that starts in the UI state s2 reached after
\* fan-in and runs a CreateWindow command that fails.
FailedCreateWindow(s2) ==
    /\ Running
    /\ ReachesInput(s2)
    /\ FailingCreateWindow \in InputCommands(s2)
    /\ Commit(AfterInput(s2, <<FailingCreateWindow>>))

\* C27: when the window cannot be created while a CreateWindow command is
\* applied, the registry is not mutated (same map, same active window) and
\* the loop keeps serving the existing windows: it neither aborts nor
\* exits.
C27_FailedCreateLeavesRegistry ==
    [][\A s2 \in {AfterFanIn(Event("Other", None, FALSE))} :
          FailedCreateWindow(s2) =>
              /\ map' = s2.tr.map
              /\ active_window_id' = s2.tr.active_window_id
              /\ DOMAIN map' # {}
              /\ ~panicked'
              /\ control_flow' # "Exit"]_vars

\* C27 witness: a window could not be created; the thread of its first tab
\* runs without a window, and the first window is registered and active.
C27_Witness ==
    /\ \E u \in Uids : /\ u < next_uid
                        /\ io_thread[u] = "running"
                        /\ tab_handle[u].window_id = None
    /\ next_window_id = W0 + 1
    /\ W0 \in DOMAIN map
    /\ active_window_id = W0
    /\ Running

\* C28: the cursor is treated as over the close button of the hovered tab
\* exactly when its x offset from the tab's left edge lies in
\* [CLOSE_ICON_PADDING, CLOSE_ICON_PADDING + 2 * CLOSE_ICON_WIDTH).  The
\* offset is (dpr * x) % (width / tabs_len); both sides of each comparison
\* are multiplied by tabs_len.
C28_CloseHotspotRange ==
    LET a == probe.args
        offset == (a.dpr * a.x * a.tabs_len) % a.width
    IN  probe.fn = "close_button_hit" =>
            (probe.out <=>
                /\ offset >= CLOSE_ICON_PADDING * a.tabs_len
                /\ offset < (CLOSE_ICON_PADDING + 2 * CLOSE_ICON_WIDTH)
                                * a.tabs_len)

\* C29: the title-ellipsis function returns unchanged a title that already
\* fits the tab width, i.e. whose text fits between the paddings of the
\* tab: no character is cut and no "..." appended.
C29_EllipsisKeepsFittingTitle ==
    LET a == probe.args
    IN  (/\ probe.fn = "ellipsis_tab_title"
         /\ Len(a.title) * a.cell_width + title_padding(a.dpr)
                <= a.drag_aware_width) =>
            probe.out = [panic |-> FALSE, title |-> a.title]

\* The step of an iteration that starts in the UI state s2 reached after
\* fan-in and runs the command ActivateWindow(w) for a window w that is
\* not registered.
ActivateUnknownWindow(s2, w) ==
    /\ Running
    /\ ReachesInput(s2)
    /\ w \notin DOMAIN s2.tr.map
    /\ Commit(AfterInput(s2, <<Command("ActivateWindow", w, 0, 0)>>))

\* C30: activating a window that is not in the registry leaves the active
\* window unchanged, both for the command ActivateWindow and for a deferred
\* activation whose window is closed before the activation is applied (by
\* the CloseRequested of the same iteration, or earlier).
C30_ActivateUnknownIsNoOp ==
    [][/\ \A s2 \in {AfterFanIn(Event("Other", None, FALSE))} :
            \A w \in Created :
               ActivateUnknownWindow(s2, w) =>
                   active_window_id' = s2.tr.active_window_id
       /\ \A w \in Created :
            (schedule_window_activation = w /\ CloseRequested(w)) =>
                active_window_id' =
                    close_window(Tracker(map, active_window_id, closed), w)
                        .active_window_id
       /\ \A w \in Created \ DOMAIN map :
            (schedule_window_activation = w /\ OtherEvent) =>
                active_window_id' = active_window_id]_vars

\* C31: while a tab is dragged and not detached,
\* ghost_index = clamp(tab_id + round(dx / tab_width), 0, N - 1), N being
\* the number of tabs of the strip and tab_width = window width / N: the
\* ghost index always lies in [0, N - 1].
C31_GhostIndexClamped ==
    [][\A p \in Positions :
          DragStep(p) =>
              LET dx == (Unwrap(tab_bar.current_mouse_position).x
                           - Unwrap(tab_bar'.mouse_down_position).x) * Dpr
                  info == Unwrap(tab_bar'.dragging_info)
                  N == info.len0
                  raw == info.tab_id + ((Width + 2 * dx * N) \div (2 * Width))
              IN  ~info.is_detached =>
                      /\ info.ghost_tab_index \in 0..N - 1
                      /\ info.ghost_tab_index =
                             IF raw < 0 THEN 0
                             ELSE IF raw > N - 1 THEN N - 1 ELSE raw]_vars

\* ------------------------------------------- inactive redraws, step by step
\* draw_inactive_visible_windows takes the terminal's lock three times for a
\* dirty tab: to read the flag, to clear it, and inside redraw. The PTY
\* threads write between any two of them.

\* The statement that follows the one at pc in the body of the loop, the
\* statements taken in the opposite order.
phase_after_draw_first(pc) ==
    IF pc = "check" THEN "draw" ELSE IF pc = "draw" THEN "clear" ELSE "loop"

\* The statement that follows the one at pc in the body of the loop: the
\* flag is read, cleared, and then the terminal is drawn.
phase_after(pc) ==
    IF pc = "check" THEN "clear" ELSE IF pc = "clear" THEN "draw" ELSE "loop"

\* The window being visited is done when the loop is reached again.
phase_todo(ph, pc) == IF pc = "loop" THEN ph.todo \ {ph.w} ELSE ph.todo

\* Processor::redraw: the content of the terminal at the time of the call
\* is on the screen.
redraw(ph, u) ==
    [ph EXCEPT !.screen[u] = ph.content[u], !.draws[ph.w] = @ + 1]

PhaseVars == <<map, active_window_id, schedule_window_activation,
               control_flow, tab_handle, channel, pty, io_thread, loop_tx,
               next_uid, next_window_id, closed, current_context, tab_bar,
               tab_bar_out, last, fanin, probe, gpu,
               user_events>>

\* Two windows of one tab each, any of them or none the active one.
InitPhase ==
    /\ map = [w \in {W0, W0 + 1} |->
                 [tab_collection |-> <<NewTab(w, 0)>>, active_tab |-> 0]]
    /\ active_window_id \in {None, W0, W0 + 1}
    /\ schedule_window_activation = None
    /\ control_flow = "Poll"
    /\ tab_handle = [u \in Uids |-> IF u <= 2 THEN NewHandle(u, 0)
                                    ELSE NewHandle(None, 0)]
    /\ channel = <<>>
    /\ pty = [u \in Uids |-> 0]
    /\ io_thread = [u \in Uids |-> IF u <= 2 THEN "running" ELSE "unspawned"]
    /\ loop_tx = [u \in Uids |-> <<>>]
    /\ next_uid = 3
    /\ next_window_id = W0 + 2
    /\ panicked = FALSE
    /\ closed = {}
    /\ dirty = [u \in Uids |-> FALSE]
    /\ current_context = W0 + 1
    /\ tab_bar = NewTabBar
    /\ tab_bar_out = NoOutput
    /\ last = NoOp
    /\ fanin = NoFanin
    /\ probe = NoProbe
    /\ phase = NoPhase
    /\ gpu = {}
    /\ user_events = [u \in Uids |-> 0]

\* The PTY thread of tab u writes output into the terminal and sets its
\* dirty flag, under the terminal's lock.
PtyWrite(u) ==
    /\ Running
    /\ io_thread[u] = "running"
    /\ phase.content[u] < MaxContent
    /\ dirty' = [dirty EXCEPT ![u] = TRUE]
    /\ phase' = [phase EXCEPT !.content[u] = @ + 1,
                              !.wrote = @ \/ phase.pc # "idle"]
    /\ UNCHANGED PhaseVars
    /\ UNCHANGED panicked

\* draw_inactive_visible_windows is entered: the active window is looked up
\* and the iteration over all window contexts starts.
PhaseBegin ==
    /\ Running
    /\ phase.pc = "idle"
    /\ IF /\ active_window_id # None
          /\ active_window_id \notin DOMAIN map
       THEN panicked' = TRUE /\ phase' = phase
       ELSE /\ panicked' = panicked
            /\ phase' = [phase EXCEPT !.pc = "loop",
                                      !.todo = DOMAIN map,
                                      !.w = None,
                                      !.ended = FALSE,
                                      !.wrote = FALSE,
                                      !.seen = NoPhase.seen,
                                      !.cleared = NoPhase.cleared,
                                      !.draws = NoPhase.draws]
    /\ UNCHANGED PhaseVars
    /\ UNCHANGED dirty

\* The loop takes the next window context w, in the order of the map: the
\* active window is passed over, the dirty flag of the active tab of any
\* other window is read.
PhaseVisit(w) ==
    /\ Running
    /\ phase.pc = "loop"
    /\ w \in phase.todo
    /\ IF active_window_id # None /\ w = active_window_id
       THEN /\ phase' = [phase EXCEPT !.todo = @ \ {w}]
            /\ panicked' = panicked
       ELSE IF active_tab(map[w]) = None
       THEN panicked' = TRUE /\ phase' = phase
       ELSE /\ panicked' = panicked
            /\ IF dirty[active_tab(map[w])]
               THEN phase' = [phase EXCEPT !.w = w,
                                           !.seen[w] = TRUE,
                                           !.pc = phase_after("check")]
               ELSE phase' = [phase EXCEPT !.todo = @ \ {w}]
    /\ UNCHANGED PhaseVars
    /\ UNCHANGED dirty

\* tab.terminal.lock().dirty = false
PhaseClear ==
    /\ Running
    /\ phase.pc = "clear"
    /\ dirty' = [dirty EXCEPT ![active_tab(map[phase.w])] = FALSE]
    /\ phase' = [phase EXCEPT !.cleared[phase.w] = TRUE,
                              !.pc = phase_after("clear"),
                              !.todo = phase_todo(phase, phase_after("clear"))]
    /\ UNCHANGED PhaseVars
    /\ UNCHANGED panicked

\* inactive_ctx.processor.lock().redraw(tab.terminal.clone(), config)
PhaseDraw ==
    /\ Running
    /\ phase.pc = "draw"
    /\ phase' = [redraw(phase, active_tab(map[phase.w]))
                    EXCEPT !.pc = phase_after("draw"),
                           !.todo = phase_todo(phase, phase_after("draw"))]
    /\ UNCHANGED PhaseVars
    /\ UNCHANGED <<dirty, panicked>>

\* Every window context has been visited: the function returns.
PhaseEnd ==
    /\ Running
    /\ phase.pc = "loop"
    /\ phase.todo = {}
    /\ phase' = [phase EXCEPT !.pc = "idle", !.ended = TRUE]
    /\ UNCHANGED PhaseVars
    /\ UNCHANGED <<dirty, panicked>>

NextPhase ==
    \/ \E u \in Uids : PtyWrite(u)
    \/ PhaseBegin
    \/ \E w \in WindowIds : PhaseVisit(w)
    \/ PhaseClear
    \/ PhaseDraw
    \/ PhaseEnd

SpecPhase == InitPhase /\ [][NextPhase]_vars

\* C32: in the inactive-redraw phase the active window is never drawn; every
\* other window whose active tab's terminal is dirty is drawn once, its dirty
\* flag cleared before the draw; a window whose terminal is not dirty is not
\* drawn; a terminal made dirty by its PTY thread during the phase is still
\* dirty afterwards or has been drawn with the new content.
C32_InactiveRedraw ==
    /\ \A w \in WindowIds :
          /\ phase.draws[w] > 0 => w # active_window_id
          /\ phase.draws[w] <= 1
          /\ phase.draws[w] = 1 => phase.seen[w] /\ phase.cleared[w]
    /\ (phase.ended /\ phase.pc = "idle") =>
          \A w \in DOMAIN map \ {active_window_id} :
              LET u == active_tab(map[w])
              IN  /\ phase.seen[w] => phase.draws[w] = 1
                  /\ ~phase.seen[w] => phase.draws[w] = 0
                  /\ dirty[u] \/ phase.screen[u] = phase.content[u]

\* A phase has ended in which an inactive window was drawn and its PTY
\* thread wrote after the draw: the terminal is dirty, the screen is behind.
C32_Witness ==
    /\ phase.ended /\ phase.pc = "idle" /\ phase.wrote
    /\ \E w \in DOMAIN map \ {active_window_id} :
          /\ phase.draws[w] = 1
          /\ dirty[active_tab(map[w])]
          /\ phase.screen[active_tab(map[w])] > 0
          /\ phase.screen[active_tab(map[w])]
                 < phase.content[active_tab(map[w])]

\* C33: whenever the terminal processor iteration runs for the active
\* window, the active window's GPU context is current, made so immediately
\* before, whatever windows were drawn in earlier iterations.
C33_RunIterationInActiveContext ==
    \A r \in gpu :
        r.op = "run_iteration" =>
            /\ r.context = r.window
            /\ \E m \in gpu : m.op = "make_current" /\ m.window = r.window

\* The iteration found the context of another window current, drawn in an
\* earlier iteration, and ran the terminal processor of the active window.
C33_Witness ==
    /\ \E m \in gpu : /\ m.op = "make_current"
                      /\ m.context # m.window
                      /\ m.window = active_window_id
    /\ \E r \in gpu : r.op = "run_iteration" /\ r.window = active_window_id

\* ----------------------------------------------- three tabs, two windows
\* The first window with two tabs, the second window, created by a
\* CreateWindow command, with one tab: the second window is active and its
\* context current.  The PTY threads emit their events, the loop receives
\* lifecycle and other events and tab-closing input.
InitGpu ==
    /\ map = (W0 :> [tab_collection |-> <<NewTab(1, 0), NewTab(2, 1)>>,
                     active_tab |-> 0])
             @@ (W0 + 1 :> [tab_collection |-> <<NewTab(3, 0)>>,
                            active_tab |-> 0])
    /\ active_window_id = W0 + 1
    /\ schedule_window_activation = None
    /\ control_flow = "Poll"
    /\ tab_handle = [u \in Uids |-> IF u <= 2 THEN NewHandle(W0, u - 1)
                                    ELSE IF u = 3 THEN NewHandle(W0 + 1, 0)
                                    ELSE NewHandle(None, 0)]
    /\ channel = <<>>
    /\ pty = [u \in Uids |-> 0]
    /\ io_thread = [u \in Uids |-> IF u <= 3 THEN "running" ELSE "unspawned"]
    /\ loop_tx = [u \in Uids |-> <<>>]
    /\ next_uid = 4
    /\ next_window_id = W0 + 2
    /\ panicked = FALSE
    /\ closed = {}
    /\ dirty = [u \in Uids |-> FALSE]
    /\ current_context = W0 + 1
    /\ tab_bar = NewTabBar
    /\ tab_bar_out = NoOutput
    /\ last = NoOp
    /\ fanin = NoFanin
    /\ probe = NoProbe
    /\ phase = NoPhase
    /\ gpu = {}
    /\ user_events = [u \in Uids |-> 0]

NextGpu ==
    \/ OtherEvent
    \/ \E u \in Uids : send_event(u)
    \/ \E w \in Created, f \in BOOLEAN : Focused(w, f)
    \/ InputCloseCurrentTab
    \/ InputCloseTab

SpecGpu == InitGpu /\ [][NextGpu]_vars

\* C34: every operation that resizes or draws the display of a window W
\* (update_size after CreateTab, CloseTab, CloseCurrentTab or a fan-in Exit,
\* and redraw) runs while W's GPU context is current, also when W is not the
\* active window.
C34_DisplayWorkInOwnContext ==
    \A r \in gpu :
        r.op \in {"update_size", "redraw"} => r.context = r.window

\* ------------------------------------------------ the two copies of Exit
\* The tabs stored in the registry m.
Stored(m) == {u \in Uids : WindowOf(m, u) # None}

\* Processor::run_iteration for the user event Exit: CloseCurrentTab of the
\* active window is queued.
user_exit_commands(s) ==
    IF ReachesInput(s)
    THEN <<Command("CloseCurrentTab", s.tr.active_window_id, 0, 0)>>
    ELSE <<>>

\* The next user event of tab u the loop has not received yet: send_event
\* posts one with every event it pushes onto the fan-in channel.
NextUserEvent(u) == Script[user_events[u] + 1]

\* One iteration for the next user event of tab u.
UserEvent(u) ==
    /\ Running
    /\ user_events[u] < pty[u]
    /\ user_events' = [user_events EXCEPT ![u] = @ + 1]
    /\ \E s2 \in {AfterFanIn(Event("Other", None, FALSE))} :
          \E s3 \in {AfterInput(s2, IF NextUserEvent(u) = "Exit"
                                     THEN user_exit_commands(s2) ELSE <<>>)} :
              Commit(s3)

\* One window with two tabs, the second created by a CreateTab command and
\* active since.
InitExit ==
    /\ map = (W0 :> [tab_collection |-> <<NewTab(1, 0), NewTab(2, 1)>>,
                     active_tab |-> 1])
    /\ active_window_id = W0
    /\ schedule_window_activation = None
    /\ control_flow = "Poll"
    /\ tab_handle = [u \in Uids |-> IF u <= 2 THEN NewHandle(W0, u - 1)
                                    ELSE NewHandle(None, 0)]
    /\ channel = <<>>
    /\ pty = [u \in Uids |-> 0]
    /\ io_thread = [u \in Uids |-> IF u <= 2 THEN "running" ELSE "unspawned"]
    /\ loop_tx = [u \in Uids |-> <<>>]
    /\ next_uid = 3
    /\ next_window_id = W0 + 1
    /\ panicked = FALSE
    /\ closed = {}
    /\ dirty = [u \in Uids |-> FALSE]
    /\ current_context = W0
    /\ tab_bar = NewTabBar
    /\ tab_bar_out = NoOutput
    /\ last = NoOp
    /\ fanin = NoFanin
    /\ probe = NoProbe
    /\ phase = NoPhase
    /\ gpu = {}
    /\ user_events = [u \in Uids |-> 0]

NextExit ==
    \/ OtherEvent
    \/ \E u \in Uids : send_event(u)
    \/ \E u \in Uids : UserEvent(u)
    \/ \E w \in Created, f \in BOOLEAN : Focused(w, f)

SpecExit == InitExit /\ [][NextExit]_vars

\* C35: one Exit emitted by a tab removes exactly one tab, the emitting one:
\* the copy that arrives on the fan-in channel and the copy that arrives as
\* a user event for the terminal processor never together close two tabs.
\* The iteration for the user event of tab u's Exit removes no tab but u,
\* and none when u is gone already.
C35_ExitClosesOnlyItsTab ==
    [][\A u \in Uids :
          (UserEvent(u) /\ NextUserEvent(u) = "Exit") =>
              LET s2 == AfterFanIn(Event("Other", None, FALSE))
                  s3 == AfterInput(s2, user_exit_commands(s2))
              IN  Stored(s2.tr.map) \ Stored(s3.tr.map) \subseteq {u}]_vars

\* C36: after Focused(false) for window w has been handled, and until a later
\* Focused(true) for w arrives, w is not the active window, also when the
\* Focused(false) arrives while the activation scheduled by a preceding
\* Focused(true) is still pending: the iteration for Focused(false) leaves w
\* not active, and no iteration but one that follows a Focused(true) for w
\* (the activation it scheduled pending) makes w active.
C36_UnfocusedWindowNotActive ==
    [][\A w \in Created :
          /\ Focused(w, FALSE) => active_window_id' # w
          /\ (/\ active_window_id # w
              /\ schedule_window_activation # w
              /\ ~Focused(w, TRUE)) => active_window_id' # w]_vars

\* C37: events emitted by a window's initial tab before the window id has
\* been written into the tab's handle are not lost: when the UI thread
\* dequeues them they are attributed to tab 0 of that window, so an early
\* Exit still closes the tab and an early Title still sets its title.
C37_EarlyEventsApplied ==
    [][(/\ channel # <<>>
        /\ Head(channel).window_id = None
        /\ fanin'.kind # "none"
        /\ Head(channel).src \in Stored(map)
        /\ IndexOf(map[WindowOf(map, Head(channel).src)].tab_collection,
                   Head(channel).src) = 0) =>
           LET e == Head(channel)
           IN  /\ e.wrapped_event = "Exit" => e.src \notin Stored(map')
               /\ e.wrapped_event = "Title" =>
                     /\ e.src \in Stored(map')
                     /\ TabOf(map', e.src).title = X]_vars

\* C38: move_tab(a, b) never changes which tab is the active one: when the
\* active tab is not the moved tab, active_index afterwards is the new index
\* of the tab that was active before the move.
C38_MoveKeepsActiveTab ==
    (/\ last.op = "move_tab"
     /\ last.before.active_tab < Len(Before)) =>
        /\ Coll.active_tab < Len(Tabs)
        /\ Tabs[Coll.active_tab + 1].uid = Before[last.before.active_tab + 1].uid

\* C39: TabBarProcessor::handle_event completes without failure for every
\* sequence of CursorMoved, MouseInput and RedrawRequested events, also for
\* a press received before any cursor position is known and for a hover or
\* press computed on a stale snapshot or while a dragged tab is detached.
C39_HandleEventNeverFails ==
    [][(RedrawRequested \/ (\E p \in Positions : CursorMoved(p))
          \/ (\E st \in {"Pressed", "Released"}, b \in {"Left", "Right"} :
                 MouseInput(st, b)))
       => ~panicked']_vars

\* C40: when a CreateWindow command fails inside MultiWindowCommandQueue::run,
\* the commands queued after it in the same run are still applied: the
\* iteration whose input queued <<CreateWindow, c2>>, the creation failing,
\* leaves the registry that applying c2 after the failed creation leaves.
C40_CommandsAfterFailedCreateApplied ==
    [][\A s2 \in {AfterFanIn(Event("Other", None, FALSE))} :
          \A q \in Batches(s2) :
              (/\ Running
               /\ ReachesInput(s2)
               /\ q[1].b = 1
               /\ Commit(AfterInput(s2, q))) =>
                  LET s3 == run_command(
                                run_command(run_iteration(make_current(s2)),
                                            q[1]),
                                q[2])
                  IN  ~s3.panicked =>
                          /\ map' = s3.tr.map
                          /\ active_window_id' = s3.tr.active_window_id]_vars

====
